---- MODULE Spec2Model ----
(***************************************************************************)
(* The deck workflow of the Pokemon deck API: the Express handlers of      *)
(* DecksController, the DecksService they call, and the relational store   *)
(* (Deck and DeckCard tables, Card catalog) the service reaches through    *)
(* Prisma.  A handler is a sequence of steps: the synchronous code up to   *)
(* the first awaited store call, then one step per store statement (the    *)
(* statement and the code that follows it up to the next await).  The      *)
(* steps of concurrent requests interleave freely.                         *)
(***************************************************************************)
EXTENDS Integers, Sequences, FiniteSets, Bags, TLC

\* A deck holds exactly this many cards (cardId.length !== 10).
DeckSize == 10

\* Bounds of the model: the requests a behaviour follows, the rows of the
\* Card catalog (ids 1..CatalogSize), the registered users.
MaxRequests == 3
CatalogSize == 20
NumUsers == 2

\* Request slots: the requests that may be in flight at the same time.
Procs == {1, 2}

Users == 1..NumUsers
CardIds == 1..CatalogSize

\* An optional JavaScript value: undefined, or a value.
Undef == <<>>
Some(x) == <<x>>

(***************************************************************************)
(* Request bodies.  body.cards is undefined, an array of ids, or a value   *)
(* that is not an array (here a string, which has a length).               *)
(***************************************************************************)
Run(s, n) == [i \in 1..n |-> s + i - 1]
ArrayOf(ids) == [isArray |-> TRUE, len |-> Len(ids), ids |-> ids]
StringOf(n) == [isArray |-> FALSE, len |-> n, ids |-> <<>>]

ListA == Run(1, DeckSize)
ListB == Run(CatalogSize - DeckSize + 1, DeckSize)
ListUnknown == Run(CatalogSize - DeckSize + 2, DeckSize)
ListDup == [i \in 1..DeckSize |-> IF i = DeckSize THEN 1 ELSE i]
ListShort == Run(1, DeckSize - 1)
ListEmpty == Run(1, 0)
ListLong == Run(CatalogSize - DeckSize + 1, DeckSize + 1)

Body(name, cards) == [name |-> name, cards |-> cards]

\* POST /decks bodies: a well-formed one, and each way of being malformed.
CreateBodies ==
    {Body(Some("A"), Some(ArrayOf(l))) :
        l \in {ListA, ListUnknown, ListDup, ListShort, ListEmpty, ListLong}}
    \cup {Body(Some("A"), Undef), Body(Some("A"), Some(StringOf(3))),
          Body(Undef, Some(ArrayOf(ListA))), Body(Some(""), Some(ArrayOf(ListA)))}

\* PATCH /decks/:id bodies: name only, cards only, both, neither, and the
\* malformed ones.
PatchBodies ==
    {Body(name, cards) :
        name \in {Undef, Some("B")},
        cards \in {Undef} \cup {Some(ArrayOf(l)) : l \in {ListB, ListUnknown, ListShort}}}
    \cup {Body(Some(""), Undef), Body(Undef, Some(ArrayOf(ListDup))),
          Body(Undef, Some(StringOf(DeckSize))), Body(Undef, Some(ArrayOf(ListA)))}

\* JavaScript truthiness of body.name (a string or undefined) and body.cards.
\* Faulty variant: the empty string counts as a name.
NameTruthy_defined(name) == name # Undef

NameTruthy(name) == name # Undef /\ name[1] # ""
CardsTruthy(cards) == cards # Undef /\ (cards[1].isArray \/ cards[1].len > 0)

\* JavaScript truthiness of a body field that is a string or undefined.
Truthy(value) == value # Undef /\ value[1] # ""

\* bcrypt.hash(password, 10)
SaltRounds == 10

JWT_SECRET == "process.env.JWT_SECRET"

\* The address of user u; that of user NumUsers + 1 is not registered at first.
EmailOf(u) == ToString(u)
Emails == {EmailOf(u) : u \in 1..(NumUsers + 1)}
Passwords == {"pw1", "pw2"}
Salts == {"s1", "s2"}

\* POST /auth/sign-up bodies: the well-formed ones, and each field missing.
SignUpBodies ==
    {[username |-> Some("ash"), email |-> Some(e), password |-> Some(pw)] :
        e \in Emails, pw \in Passwords}
    \cup {[username |-> Undef, email |-> Some(EmailOf(1)), password |-> Some("pw1")],
          [username |-> Some(""), email |-> Some(EmailOf(NumUsers + 1)), password |-> Some("pw1")],
          [username |-> Some("ash"), email |-> Undef, password |-> Some("pw1")],
          [username |-> Some("ash"), email |-> Some(EmailOf(1)), password |-> Undef],
          [username |-> Some("ash"), email |-> Some(EmailOf(NumUsers + 1)), password |-> Some("")]}

\* POST /auth/sign-in bodies.
SignInBodies ==
    {[email |-> Some(e), password |-> Some(pw)] : e \in Emails, pw \in Passwords}
    \cup {[email |-> Undef, password |-> Some("pw1")],
          [email |-> Some(EmailOf(1)), password |-> Undef],
          [email |-> Some(EmailOf(1)), password |-> Some("")]}

VARIABLES
    users,       \* User table: id -> [username, email, password]
    nextUserId,  \* the User table's autoincrement
    decks,       \* Deck table: id -> [name, userId]
    deckCards,   \* DeckCard table: a bag of <<deckId, cardId>> rows
    nextDeckId,  \* the Deck table's autoincrement
    pc,          \* where each request slot's handler stands
    req,         \* the request a slot is handling
    resp,        \* the response a slot has sent
    wrote,       \* whether the slot's request has changed a table so far
    thrown,      \* the error the slot's handler caught ("" when none)
    onDelete,    \* the referential action of the relation DeckCard -> Deck
    started      \* the requests received so far

vars ==
    <<users, nextUserId, decks, deckCards, nextDeckId, pc, req, resp, wrote, thrown,
      onDelete, started>>

NoReq ==
    [op |-> "none", authorization |-> Undef, userId |-> 0, deckId |-> 0,
     name |-> Undef, cards |-> Undef]
\* A JSON body: {error}, or {message, deck}, or {deck}.
ErrorBody(error) == [error |-> error, message |-> "", deck |-> Undef]
MessageBody(message, deck) == [error |-> "", message |-> message, deck |-> deck]
NoResp == [status |-> 0, body |-> MessageBody("", Undef)]

\* Faulty variant: the password is stored as it was sent.
bcrypt_hash_plain(password, salt) == password

\* bcrypt.hash(password, 10): the hash string carries the cost and the salt.
bcrypt_hash(password, salt) == "$2b$" \o ToString(SaltRounds) \o "$" \o salt \o password

\* Faulty variant: every password is accepted.
bcrypt_compare_any(password, hash) == TRUE

\* bcrypt.compare(password, hash): hashes the password with the salt of hash.
bcrypt_compare(password, hash) == \E salt \in Salts : hash = bcrypt_hash(password, salt)

\* The accounts registered before the first request: user u, with address
\* EmailOf(u) and password "pw1".
Init ==
    /\ users = [u \in Users |->
                  [username |-> "ash", email |-> EmailOf(u),
                   password |-> bcrypt_hash("pw1", "s1")]]
    /\ nextUserId = NumUsers + 1
    /\ decks = <<>>
    /\ deckCards = EmptyBag
    /\ nextDeckId = 1
    /\ pc = [p \in Procs |-> "idle"]
    /\ req = [p \in Procs |-> NoReq]
    /\ resp = [p \in Procs |-> NoResp]
    /\ thrown = [p \in Procs |-> ""]
    /\ wrote = [p \in Procs |-> FALSE]
    /\ onDelete = "unknown"
    /\ started = 0

(***************************************************************************)
(* Tokens and the Authorization header.                                    *)
(***************************************************************************)
\* jwt.sign(payload, secret, {expiresIn}): a token just issued.
jwt_sign(payload, secret, expiresIn) ==
    [payload |-> payload, signedWith |-> secret, expiresIn |-> expiresIn,
     expired |-> FALSE]

\* Faulty variant: the expiry is not looked at.
jwt_verify_ignoreExpiration(token, secret) == token.signedWith = secret

\* jwt.verify(token, secret): whether it returns the payload (it throws on a
\* signature made with another key and on a token past its expiry).
jwt_verify(token, secret) == token.signedWith = secret /\ ~token.expired

\* The payload of the tokens issued for a User row.
TokenPayload(id, user) == [userId |-> id, email |-> user.email, username |-> user.username]

\* The tokens a client may present: the one issued for a user, the same
\* past its 7 days, and one signed with another key.
IssuedTokens == {jwt_sign(TokenPayload(u, users[u]), JWT_SECRET, "7d") : u \in DOMAIN users}
PresentedTokens ==
    IssuedTokens
    \cup {[t EXCEPT !.expired = TRUE] : t \in IssuedTokens}
    \cup {[t EXCEPT !.signedWith = "another secret"] : t \in IssuedTokens}

\* An Authorization header, as the segments authHeader.split(' ') yields;
\* the second segment is a token, or Undef for the empty string.  Undef
\* stands for a request without the header.
Headers ==
    {Undef, Some(<<"">>), Some(<<"InvalidFormat">>), Some(<<"Bearer">>),
     Some(<<"Bearer", Undef>>)}
    \cup {Some(<<"Bearer", Some(t)>>) : t \in PresentedTokens}

\* const token = authHeader && authHeader.split(' ')[1]
TokenOf(authHeader) ==
    IF authHeader = Undef \/ authHeader[1] = <<"">>
    THEN Undef
    ELSE IF Len(authHeader[1]) < 2 THEN Undef ELSE authHeader[1][2]

\* Faulty variant: req.userId is read from decoded.id, a field the payload
\* does not have.
authenticateToken_noUserId(authHeader) ==
    LET token == TokenOf(authHeader)
    IN  IF token = Undef
        THEN [next |-> FALSE, verified |-> FALSE, status |-> 401,
              error |-> "Token manquant", userId |-> 0]
        ELSE IF ~jwt_verify(token[1], JWT_SECRET)
        THEN [next |-> FALSE, verified |-> TRUE, status |-> 401,
              error |-> "Token invalide ou expiré", userId |-> 0]
        ELSE [next |-> TRUE, verified |-> TRUE, status |-> 0,
              error |-> "", userId |-> 0]

\* authenticateToken: whether next() is called, whether jwt.verify was
\* called, the response sent otherwise, and req.userId.
authenticateToken(authHeader) ==
    LET token == TokenOf(authHeader)
    IN  IF token = Undef
        THEN [next |-> FALSE, verified |-> FALSE, status |-> 401,
              error |-> "Token manquant", userId |-> 0]
        ELSE IF ~jwt_verify(token[1], JWT_SECRET)
        THEN [next |-> FALSE, verified |-> TRUE, status |-> 401,
              error |-> "Token invalide ou expiré", userId |-> 0]
        ELSE [next |-> TRUE, verified |-> TRUE, status |-> 0,
              error |-> "", userId |-> token[1].payload.userId]

\* The headers that authenticateToken lets through to the handler.
Authenticated == {h \in Headers : authenticateToken(h).next}

(***************************************************************************)
(* The store, as the Prisma calls of DecksService read and write it.       *)
(***************************************************************************)

\* Faulty variant: the set is built from the requested ids, not from the
\* rows the query returned.
existingIds_requested(ids) == {ids[i] : i \in 1..Len(ids)}

\* prisma.card.findMany({where: {id: {in: cardId}}}): the ids found.
existingIds(ids) == {ids[i] : i \in 1..Len(ids)} \cap CardIds

\* Faulty variant: only the first id of the list is looked at.
allIdsExist_first(ids) == Len(ids) = 0 \/ ids[1] \in existingIds(ids)

\* Faulty variant: some in place of every.
allIdsExist_some(ids) == \E i \in 1..Len(ids) : ids[i] \in existingIds(ids)

\* cardId.every((id) => existingIds.has(id))
allIdsExist(ids) == \A i \in 1..Len(ids) : ids[i] \in existingIds(ids)

\* Faulty variant: the length is not checked.
WrongCardCount_never(cards) == FALSE

\* Faulty variant: only a list longer than 10 is refused.
WrongCardCount_longer(cards) == cards.len > DeckSize

\* if (cardId.length !== 10) throw new Error('ERREUR_NB_CARTES')
WrongCardCount(cards) == cards.len # DeckSize

\* include: {deckCard: {include: {card: true}}}: the deck's rows, as a bag
\* of card ids.
CardsOf(d) ==
    LET linked == {r[2] : r \in {x \in BagToSet(deckCards) : x[1] = d}}
    IN  [c \in linked |-> CopiesIn(<<d, c>>, deckCards)]

NumRows(d) == BagCardinality(CardsOf(d))

DeckView(d) ==
    [id |-> d, name |-> decks[d].name, userId |-> decks[d].userId,
     cards |-> CardsOf(d)]

\* Faulty variant: the lookup is by owner alone and yields one of the user's
\* decks, whatever the id.
getDeckById_byUser(deckId, userId) ==
    LET mine == {x \in DOMAIN decks : decks[x].userId = userId}
    IN  IF mine = {} THEN Undef ELSE Some(DeckView(CHOOSE x \in mine : TRUE))

\* DecksService.getDeckById: prisma.deck.findUnique({where: {id, userId}}).
getDeckById(deckId, userId) ==
    IF deckId \in DOMAIN decks /\ decks[deckId].userId = userId
    THEN Some(DeckView(deckId))
    ELSE Undef

\* deckCard: {create: cardId.map((cardId) => ({cardId}))}: one row per
\* element of the list.
CardBag(ids) ==
    [c \in {ids[i] : i \in 1..Len(ids)} |->
        Cardinality({i \in 1..Len(ids) : ids[i] = c})]

\* Faulty variant: only the first card of the list is linked.
NewRows_first(d, ids) == (<<d, ids[1]>> :> 1)

\* The DeckCard rows of the nested create.
NewRows(d, ids) ==
    [r \in {<<d, c>> : c \in DOMAIN CardBag(ids)} |-> CardBag(ids)[r[2]]]

\* Faulty variant: the table has no unique index.
DeckCard_deckId_cardId_key_absent(d, ids) == TRUE

\* The unique index on DeckCard(deckId, cardId): whether inserting the rows
\* of ids for deck d keeps every pair unique.
DeckCard_deckId_cardId_key(d, ids) ==
    /\ \A i, j \in 1..Len(ids) : ids[i] = ids[j] => i = j
    /\ \A i \in 1..Len(ids) : CopiesIn(<<d, ids[i]>>, deckCards) = 0

\* Faulty variant: the deleteMany has no where clause.
RowsWithout_all(d) == EmptyBag

\* prisma.deckCard.deleteMany({where: {deckId}})
RowsWithout(d) ==
    LET keep == {r \in BagToSet(deckCards) : r[1] # d}
    IN  [r \in keep |-> deckCards[r]]

\* Faulty variant: the Deck row is not removed.
DecksWithout_kept(d) == decks

\* prisma.deck.delete({where: {id: deckId}}): the Deck table without the row.
DecksWithout(d) == [x \in DOMAIN decks \ {d} |-> decks[x]]

(***************************************************************************)
(* Responses.                                                              *)
(***************************************************************************)
\* res.status(status).json(body)
Respond(p, status, body) ==
    /\ resp' = [resp EXCEPT ![p] = [status |-> status, body |-> body]]
    /\ pc' = [pc EXCEPT ![p] = "done"]

\* A response sent from the try block.
Reply(p, status, body) ==
    /\ Respond(p, status, body)
    /\ UNCHANGED thrown

Await(p, label) ==
    /\ pc' = [pc EXCEPT ![p] = label]
    /\ UNCHANGED <<resp, thrown>>

\* An error thrown in the try block reaches the handler's catch block.
Throw(p, message) == thrown' = [thrown EXCEPT ![p] = message]

\* Faulty variant: whatever is not the wrong-count error is taken for the
\* unknown-card error.
CatchDeckError_noElse(p, message) ==
    /\ Throw(p, message)
    /\ IF message = "ERREUR_NB_CARTES"
       THEN Respond(p, 400, ErrorBody("Un deck doit contenir exactement 10 cartes"))
       ELSE Respond(p, 400, ErrorBody("Certaines cartes n'existent pas"))

\* The catch block of createDeck and patchDeck: the two domain errors are
\* answered 400, anything else 500.
CatchDeckError(p, message) ==
    /\ Throw(p, message)
    /\ IF message = "ERREUR_NB_CARTES"
       THEN Respond(p, 400, ErrorBody("Un deck doit contenir exactement 10 cartes"))
       ELSE IF message = "ERREUR_CARTES_INVALIDES"
       THEN Respond(p, 400, ErrorBody("Certaines cartes n'existent pas"))
       ELSE Respond(p, 500, ErrorBody("Erreur serveur"))

\* The catch block of the other handlers: 500 whatever the error.
CatchError(p, message) ==
    /\ Throw(p, message)
    /\ Respond(p, 500, ErrorBody("Erreur serveur"))

ReadOnly == UNCHANGED <<users, nextUserId, decks, deckCards, nextDeckId, onDelete, wrote>>

Written(p) ==
    wrote' = [wrote EXCEPT ![p] =
                 @ \/ decks' # decks \/ deckCards' # deckCards \/ users' # users]

\* A response is sent as soon as it is ready: nothing else runs between a
\* handler's res.json and the slot being freed.
NoneDone == \A q \in Procs : pc[q] # "done"

\* A request arrives at a free slot.
Arrives(p) ==
    /\ pc[p] = "idle"
    /\ NoneDone
    /\ started < MaxRequests
    /\ started' = started + 1

\* A handler resumes after its awaited store call.
Resumes(p, label) ==
    /\ pc[p] = label
    /\ NoneDone
    /\ UNCHANGED started

\* The ids a request may name: those of the decks created so far, and the
\* next one, which no deck has yet.
DeckIds == 1..nextDeckId

(***************************************************************************)
(* A request to a deck route that authenticateToken answers itself: next() *)
(* is not called and no handler runs.                                      *)
(***************************************************************************)
RejectedRequest(p) ==
    /\ Arrives(p)
    /\ \E h \in Headers \ Authenticated :
          /\ req' = [req EXCEPT ![p] = [NoReq EXCEPT !.op = "authenticateToken",
                                                     !.authorization = h]]
          /\ Reply(p, authenticateToken(h).status, ErrorBody(authenticateToken(h).error))
    /\ ReadOnly

(***************************************************************************)
(* POST /decks                                                             *)
(***************************************************************************)
CreateDeckRequest(p) ==
    /\ Arrives(p)
    /\ \E h \in Authenticated, body \in CreateBodies :
          LET u == authenticateToken(h).userId
              name == body.name
              cards == body.cards
          IN
          /\ req' = [req EXCEPT ![p] = [op |-> "create", authorization |-> h,
                                        userId |-> u, deckId |-> 0,
                                        name |-> name, cards |-> cards]]
          /\ IF ~NameTruthy(name) \/ ~CardsTruthy(cards)
             THEN Reply(p, 400, ErrorBody("Le nom et les cartes sont requis"))
             ELSE IF u = 0
             THEN Reply(p, 401, ErrorBody("Utilisateur non authentifié"))
             ELSE IF ~cards[1].isArray
             THEN Reply(p, 400, ErrorBody("Les cartes doivent être un tableau"))
             ELSE IF WrongCardCount(cards[1])
             THEN CatchDeckError(p, "ERREUR_NB_CARTES")
             ELSE Await(p, "create_findMany")
    /\ ReadOnly

CreateDeckFindCards(p) ==
    /\ Resumes(p, "create_findMany")
    /\ IF ~allIdsExist(req[p].cards[1].ids)
       THEN CatchDeckError(p, "ERREUR_CARTES_INVALIDES")
       ELSE Await(p, "create_insert")
    /\ UNCHANGED req
    /\ ReadOnly

\* prisma.deck.create with its nested deckCard create: one statement, all
\* of it or none.
CreateDeckInsert(p) ==
    /\ Resumes(p, "create_insert")
    /\ LET id == nextDeckId
           ids == req[p].cards[1].ids
       IN  IF DeckCard_deckId_cardId_key(id, ids)
           THEN /\ decks' = decks @@ (id :> [name |-> req[p].name[1],
                                             userId |-> req[p].userId])
                /\ deckCards' = deckCards (+) NewRows(id, ids)
                /\ nextDeckId' = id + 1
                /\ Reply(p, 201, MessageBody("Deck créé avec succès",
                       Some([id |-> id, name |-> req[p].name[1],
                             userId |-> req[p].userId, cards |-> CardBag(ids)])))
           ELSE /\ UNCHANGED <<decks, deckCards, nextDeckId>>
                /\ CatchDeckError(p, "P2002")
    /\ UNCHANGED <<users, nextUserId, onDelete>>
    /\ Written(p)
    /\ UNCHANGED req

(***************************************************************************)
(* GET /decks/mine                                                         *)
(***************************************************************************)
\* Faulty variant: the query has no where clause.
getDecksByUserId_all(userId) == {DeckView(d) : d \in DOMAIN decks}

\* DecksService.getDecksByUserId: prisma.deck.findMany({where: {userId}}),
\* each deck with its rows.
getDecksByUserId(userId) ==
    {DeckView(d) : d \in {x \in DOMAIN decks : decks[x].userId = userId}}

\* {decks}
DecksBody(found) == [error |-> "", message |-> "", decks |-> found]

MineRequest(p) ==
    /\ Arrives(p)
    /\ \E h \in Authenticated :
          /\ req' = [req EXCEPT ![p] = [NoReq EXCEPT !.op = "mine", !.authorization = h,
                                           !.userId = authenticateToken(h).userId]]
          /\ IF authenticateToken(h).userId = 0
             THEN Reply(p, 401, ErrorBody("Utilisateur non authentifié"))
             ELSE Await(p, "mine_findMany")
    /\ ReadOnly

MineFind(p) ==
    /\ Resumes(p, "mine_findMany")
    /\ LET found == getDecksByUserId(req[p].userId)
       IN  IF found = {}
           THEN Reply(p, 200, MessageBody("Aucun deck trouvé pour cet utilisateur", Undef))
           ELSE Reply(p, 200, DecksBody(found))
    /\ UNCHANGED req
    /\ ReadOnly

(***************************************************************************)
(* GET /decks/:id                                                          *)
(***************************************************************************)
GetDeckRequest(p) ==
    /\ Arrives(p)
    /\ \E h \in Authenticated, d \in DeckIds :
          req' = [req EXCEPT ![p] = [op |-> "get", authorization |-> h,
                                     userId |-> authenticateToken(h).userId, deckId |-> d,
                                     name |-> Undef, cards |-> Undef]]
    /\ Await(p, "get_find")
    /\ ReadOnly

GetDeckFind(p) ==
    /\ Resumes(p, "get_find")
    /\ LET deck == getDeckById(req[p].deckId, req[p].userId)
       IN  IF deck = Undef
           THEN Reply(p, 404, ErrorBody("Deck inexistant"))
           ELSE IF deck[1].userId # req[p].userId
           THEN Reply(p, 403, ErrorBody("Accès refusé à ce deck"))
           ELSE Reply(p, 200, MessageBody("", deck))
    /\ UNCHANGED req
    /\ ReadOnly

(***************************************************************************)
(* PATCH /decks/:id                                                        *)
(***************************************************************************)
PatchDeckRequest(p) ==
    /\ Arrives(p)
    /\ \E h \in Authenticated, d \in DeckIds, body \in PatchBodies :
          LET u == authenticateToken(h).userId
              name == body.name
              cards == body.cards
          IN
          /\ req' = [req EXCEPT ![p] = [op |-> "patch", authorization |-> h,
                                        userId |-> u, deckId |-> d,
                                        name |-> name, cards |-> cards]]
          /\ IF CardsTruthy(cards)
             THEN IF WrongCardCount(cards[1])
                  THEN CatchDeckError(p, "ERREUR_NB_CARTES")
                  ELSE Await(p, "patch_findMany")
             ELSE Await(p, "patch_update")
    /\ ReadOnly

\* A cards value that is no array of ids is refused by the query itself.
PatchDeckFindCards(p) ==
    /\ Resumes(p, "patch_findMany")
    /\ IF ~req[p].cards[1].isArray
       THEN CatchDeckError(p, "PrismaClientValidationError")
       ELSE IF ~allIdsExist(req[p].cards[1].ids)
       THEN CatchDeckError(p, "ERREUR_CARTES_INVALIDES")
       ELSE Await(p, "patch_deleteMany")
    /\ UNCHANGED req
    /\ ReadOnly

PatchDeckDeleteCards(p) ==
    /\ Resumes(p, "patch_deleteMany")
    /\ deckCards' = RowsWithout(req[p].deckId)
    /\ Await(p, "patch_update")
    /\ UNCHANGED <<users, nextUserId, decks, nextDeckId, onDelete, req>>
    /\ Written(p)

\* prisma.deck.update with its nested deckCard create: one statement, all of
\* it or none; then the handler's comparison of the owner.
PatchDeckUpdate(p) ==
    /\ Resumes(p, "patch_update")
    /\ LET d == req[p].deckId
           withCards == CardsTruthy(req[p].cards)
           ids == IF withCards THEN req[p].cards[1].ids ELSE <<>>
           name == IF NameTruthy(req[p].name) THEN req[p].name[1] ELSE decks[d].name
           cards == CardsOf(d) (+) CardBag(ids)
       IN  IF d \notin DOMAIN decks
           THEN /\ UNCHANGED <<decks, deckCards>>
                /\ CatchDeckError(p, "P2025")
           ELSE IF ~DeckCard_deckId_cardId_key(d, ids)
           THEN /\ UNCHANGED <<decks, deckCards>>
                /\ CatchDeckError(p, "P2002")
           ELSE /\ decks' = [decks EXCEPT ![d].name = name]
                /\ deckCards' = deckCards (+) NewRows(d, ids)
                /\ IF decks[d].userId # req[p].userId
                   THEN Reply(p, 403, ErrorBody("Accès refusé à ce deck"))
                   ELSE Reply(p, 200, MessageBody("Deck mis à jour avec succès",
                            Some([id |-> d, name |-> name,
                                  userId |-> decks[d].userId, cards |-> cards])))
    /\ UNCHANGED <<users, nextUserId>>
    /\ Written(p)
    /\ UNCHANGED <<nextDeckId, onDelete, req>>

(***************************************************************************)
(* DELETE /decks/:id                                                       *)
(***************************************************************************)
DeleteDeckRequest(p) ==
    /\ Arrives(p)
    /\ \E h \in Authenticated, d \in DeckIds :
          req' = [req EXCEPT ![p] = [op |-> "delete", authorization |-> h,
                                     userId |-> authenticateToken(h).userId, deckId |-> d,
                                     name |-> Undef, cards |-> Undef]]
    /\ Await(p, "delete_check")
    /\ ReadOnly

\* The handler's own lookup, through DecksService.getDeckById.
DeleteDeckCheck(p) ==
    /\ Resumes(p, "delete_check")
    /\ LET deck == getDeckById(req[p].deckId, req[p].userId)
       IN  IF deck = Undef
           THEN Reply(p, 404, ErrorBody("Deck inexistant"))
           ELSE IF deck[1].userId # req[p].userId
           THEN Reply(p, 403, ErrorBody("Accès refusé à ce deck"))
           ELSE Await(p, "delete_find")
    /\ UNCHANGED req
    /\ ReadOnly

\* DecksService.deleteDeck: its lookup; on null the service returns null and
\* the handler, which ignores the result, answers 200.
DeleteDeckFind(p) ==
    /\ Resumes(p, "delete_find")
    /\ IF getDeckById(req[p].deckId, req[p].userId) = Undef
       THEN Reply(p, 200, MessageBody("Deck supprimé avec succès", Undef))
       ELSE Await(p, "delete_cards")
    /\ UNCHANGED req
    /\ ReadOnly

DeleteDeckCards(p) ==
    /\ Resumes(p, "delete_cards")
    /\ deckCards' = RowsWithout(req[p].deckId)
    /\ Await(p, "delete_deck")
    /\ UNCHANGED <<users, nextUserId, decks, nextDeckId, onDelete, req>>
    /\ Written(p)

\* What prisma.deck.delete does when DeckCard rows still name the deck is
\* decided by the relation's declaration in the Prisma schema, which is
\* fixed for a deployment: Restrict (Prisma's default for a required
\* relation) refuses the delete, Cascade removes the rows with the deck, and
\* a relation without a key leaves them.
OnDeleteActions == {"Restrict", "Cascade", "NoKey"}

\* The declaration shows at the first deck.delete that meets rows, and is
\* the same from then on.
DeclaredOnDelete == IF onDelete = "unknown" THEN OnDeleteActions ELSE {onDelete}

\* prisma.deck.delete({where: {id: deckId}}): a statement of its own, after
\* the deleteMany and outside any transaction.
DeleteDeckRow(p) ==
    /\ Resumes(p, "delete_deck")
    /\ LET d == req[p].deckId
       IN  IF d \notin DOMAIN decks
           THEN /\ UNCHANGED <<decks, deckCards, onDelete>>
                /\ CatchError(p, "P2025")
           ELSE IF NumRows(d) = 0
           THEN /\ decks' = DecksWithout(d)
                /\ UNCHANGED <<deckCards, onDelete>>
                /\ Reply(p, 200, MessageBody("Deck supprimé avec succès", Undef))
           ELSE \E action \in DeclaredOnDelete :
                   /\ onDelete' = action
                   /\ IF action = "Restrict"
                      THEN /\ UNCHANGED <<decks, deckCards>>
                           /\ CatchError(p, "P2003")
                      ELSE /\ decks' = DecksWithout(d)
                           /\ deckCards' = IF action = "Cascade"
                                           THEN RowsWithout(d)
                                           ELSE deckCards
                           /\ Reply(p, 200, MessageBody("Deck supprimé avec succès", Undef))
    /\ UNCHANGED <<users, nextUserId, nextDeckId, req>>
    /\ Written(p)

(***************************************************************************)
(* The User table, as the Prisma calls of the auth routes read and write   *)
(* it.                                                                     *)
(***************************************************************************)
UserRow(id) ==
    [id |-> id, username |-> users[id].username, email |-> users[id].email,
     password |-> users[id].password]

\* Faulty variant: the lookup finds nobody.
findUserByEmail_none(email) == Undef

\* prisma.user.findUnique({where: {email}})
findUserByEmail(email) ==
    LET ids == {id \in DOMAIN users : users[id].email = email}
    IN  IF ids = {} THEN Undef ELSE Some(UserRow(CHOOSE id \in ids : TRUE))

\* The unique index on User(email): whether a row with this address may be
\* inserted.
User_email_key(email) == \A id \in DOMAIN users : users[id].email # email

\* user: {id, username, email}
PublicUser(user) == [id |-> user.id, username |-> user.username, email |-> user.email]

\* {message, token, user}
AuthBody(message, token, user) ==
    [error |-> "", message |-> message, token |-> Some(token), user |-> Some(user)]

IssueToken(user) == jwt_sign(TokenPayload(user.id, user), JWT_SECRET, "7d")

DeckFrame == UNCHANGED <<decks, deckCards, nextDeckId, onDelete>>

(***************************************************************************)
(* POST /auth/sign-up                                                      *)
(***************************************************************************)
SignUpRequest(p) ==
    /\ Arrives(p)
    /\ \E body \in SignUpBodies :
          /\ req' = [req EXCEPT ![p] = [op |-> "signUp", username |-> body.username,
                                        email |-> body.email, password |-> body.password,
                                        hashedPassword |-> Undef]]
          /\ IF ~Truthy(body.username) \/ ~Truthy(body.email) \/ ~Truthy(body.password)
             THEN Reply(p, 400, ErrorBody("Tous les champs sont requis (username, email, password)"))
             ELSE Await(p, "signUp_findUnique")
    /\ ReadOnly

SignUpFind(p) ==
    /\ Resumes(p, "signUp_findUnique")
    /\ IF findUserByEmail(req[p].email[1]) # Undef
       THEN Reply(p, 409, ErrorBody("Un utilisateur avec cet email existe déjà"))
       ELSE Await(p, "signUp_hash")
    /\ UNCHANGED req
    /\ ReadOnly

\* await bcrypt.hash(password, 10), with a salt of its own choosing.
SignUpHash(p) ==
    /\ Resumes(p, "signUp_hash")
    /\ \E salt \in Salts :
          req' = [req EXCEPT ![p].hashedPassword = Some(bcrypt_hash(req[p].password[1], salt))]
    /\ Await(p, "signUp_create")
    /\ ReadOnly

\* prisma.user.create, then the token and the response.
SignUpCreate(p) ==
    /\ Resumes(p, "signUp_create")
    /\ LET newUser == [id |-> nextUserId, username |-> req[p].username[1],
                       email |-> req[p].email[1],
                       password |-> req[p].hashedPassword[1]]
       IN  IF User_email_key(newUser.email)
           THEN /\ users' = users @@ (newUser.id :>
                                [username |-> newUser.username, email |-> newUser.email,
                                 password |-> newUser.password])
                /\ nextUserId' = nextUserId + 1
                /\ Reply(p, 201, AuthBody("Utilisateur créé avec succès",
                                          IssueToken(newUser), PublicUser(newUser)))
           ELSE /\ UNCHANGED <<users, nextUserId>>
                /\ CatchError(p, "P2002")
    /\ DeckFrame
    /\ Written(p)
    /\ UNCHANGED req

(***************************************************************************)
(* POST /auth/sign-in                                                      *)
(***************************************************************************)
SignInRequest(p) ==
    /\ Arrives(p)
    /\ \E body \in SignInBodies :
          /\ req' = [req EXCEPT ![p] = [op |-> "signIn", email |-> body.email,
                                        password |-> body.password, user |-> Undef]]
          /\ IF ~Truthy(body.email) \/ ~Truthy(body.password)
             THEN Reply(p, 400, ErrorBody("Tous les champs sont requis (email, password)"))
             ELSE Await(p, "signIn_findUnique")
    /\ ReadOnly

SignInFind(p) ==
    /\ Resumes(p, "signIn_findUnique")
    /\ LET user == findUserByEmail(req[p].email[1])
       IN  IF user = Undef
           THEN /\ Reply(p, 401, ErrorBody("Email ou mot de passe incorrect"))
                /\ UNCHANGED req
           ELSE /\ req' = [req EXCEPT ![p].user = user]
                /\ Await(p, "signIn_compare")
    /\ ReadOnly

\* await bcrypt.compare(password, user.password), then the token and the
\* response.
SignInCompare(p) ==
    /\ Resumes(p, "signIn_compare")
    /\ LET user == req[p].user[1]
       IN  IF ~bcrypt_compare(req[p].password[1], user.password)
           THEN Reply(p, 401, ErrorBody("Email ou mot de passe incorrect"))
           ELSE Reply(p, 200, AuthBody("Connexion réussie", IssueToken(user),
                                       PublicUser(user)))
    /\ UNCHANGED req
    /\ ReadOnly

(***************************************************************************)
(* The response is sent and the slot is free for the next request.         *)
(***************************************************************************)
Finish(p) ==
    /\ pc[p] = "done"
    /\ pc' = [pc EXCEPT ![p] = "idle"]
    /\ req' = [req EXCEPT ![p] = NoReq]
    /\ resp' = [resp EXCEPT ![p] = NoResp]
    /\ wrote' = [wrote EXCEPT ![p] = FALSE]
    /\ thrown' = [thrown EXCEPT ![p] = ""]
    /\ UNCHANGED <<users, nextUserId, decks, deckCards, nextDeckId, onDelete, started>>

\* A store call that fails (the database cannot be reached, P1001): the
\* statement has no effect and throws into the handler's catch block.
StoreLabels ==
    {"create_findMany", "create_insert", "mine_findMany", "get_find",
     "patch_findMany", "patch_deleteMany", "patch_update", "delete_check",
     "delete_find", "delete_cards", "delete_deck", "signUp_findUnique",
     "signUp_create", "signIn_findUnique"}

StoreFails(p) ==
    /\ pc[p] \in StoreLabels
    /\ NoneDone
    /\ IF req[p].op \in {"create", "patch"}
       THEN CatchDeckError(p, "P1001")
       ELSE CatchError(p, "P1001")
    /\ UNCHANGED <<users, nextUserId, decks, deckCards, nextDeckId, onDelete, req, wrote, started>>

Next ==
    \E p \in Procs :
        \/ RejectedRequest(p)
        \/ CreateDeckRequest(p)
        \/ CreateDeckFindCards(p)
        \/ CreateDeckInsert(p)
        \/ MineRequest(p)
        \/ MineFind(p)
        \/ GetDeckRequest(p)
        \/ GetDeckFind(p)
        \/ PatchDeckRequest(p)
        \/ PatchDeckFindCards(p)
        \/ PatchDeckDeleteCards(p)
        \/ PatchDeckUpdate(p)
        \/ DeleteDeckRequest(p)
        \/ DeleteDeckCheck(p)
        \/ DeleteDeckFind(p)
        \/ DeleteDeckCards(p)
        \/ DeleteDeckRow(p)
        \/ Finish(p)

Spec == Init /\ [][Next]_vars

\* The auth routes.
NextAuth ==
    \E p \in Procs :
        \/ SignUpRequest(p)
        \/ SignUpFind(p)
        \/ SignUpHash(p)
        \/ SignUpCreate(p)
        \/ SignInRequest(p)
        \/ SignInFind(p)
        \/ SignInCompare(p)
        \/ Finish(p)

SpecAuth == Init /\ [][NextAuth]_vars

\* The same program over a store whose calls may fail.
NextFail == Next \/ \E p \in Procs : StoreFails(p)

SpecFail == Init /\ [][NextFail]_vars

\* The auth routes over a store whose calls may fail.
NextAuthFail == NextAuth \/ \E p \in Procs : StoreFails(p)

SpecAuthFail == Init /\ [][NextAuthFail]_vars

(***************************************************************************)
(* Properties.  A slot in "done" holds a request with the response it got, *)
(* in the state its last step left the store in.                           *)
(***************************************************************************)
Done(p, op) == pc[p] = "done" /\ req[p].op = op

Exists(d) == d \in DOMAIN decks

OwnedByOther(p) == Exists(req[p].deckId) /\ decks[req[p].deckId].userId # req[p].userId

\* C1: every stored Deck has exactly 10 DeckCard rows in every state, the
\* states between two store statements of a request included.
C1_EveryDeckHasTenCards == \A d \in DOMAIN decks : NumRows(d) = DeckSize

\* C2: a step of a PATCH request made by a user who is not the deck's owner
\* leaves the deck's name and its DeckCard rows as they were.
C2_OnlyOwnerMutates ==
    [][\A p \in Procs, d \in DOMAIN decks :
         (pc'[p] # pc[p] /\ req[p].op = "patch" /\ req[p].deckId = d
             /\ decks[d].userId # req[p].userId)
         => /\ d \in DOMAIN decks'
            /\ decks'[d].name = decks[d].name
            /\ CardsOf(d)' = CardsOf(d)]_vars

\* C3: GET, PATCH and DELETE on a deck owned by another user answer 403 or
\* 404, and never carry the deck.
C3_NonOwnerGets403Or404 ==
    \A p \in Procs :
        (pc[p] = "done" /\ req[p].op \in {"get", "patch", "delete"} /\ OwnedByOther(p))
        => resp[p].status \in {403, 404} /\ resp[p].body.deck = Undef

\* C4: GET /decks/:id answers 404 when no deck has the id, 403 when the deck
\* is another user's, and 200 with the deck otherwise.
C4_GetThreeWay ==
    \A p \in Procs :
        Done(p, "get") =>
            IF ~Exists(req[p].deckId)
            THEN resp[p].status = 404
            ELSE IF OwnedByOther(p)
            THEN resp[p].status = 403
            ELSE /\ resp[p].status = 200
                 /\ resp[p].body.deck = Some(DeckView(req[p].deckId))

\* C5: DELETE /decks/:id on a deck owned by another user answers 403; it
\* answers 404 only when no deck has the id.
C5_DeleteOthersDeckIs403 ==
    \A p \in Procs :
        Done(p, "delete") =>
            /\ OwnedByOther(p) => resp[p].status = 403
            /\ resp[p].status = 404 => ~Exists(req[p].deckId)

\* C6: a request answered 4xx or 5xx has changed neither the Deck nor the
\* DeckCard table.
C6_ErrorsHaveNoEffect ==
    \A p \in Procs : (pc[p] = "done" /\ resp[p].status >= 400) => ~wrote[p]

IsArray(cards) == cards # Undef /\ cards[1].isArray

\* C7: a PATCH whose cards list has not 10 elements is answered 400 (wrong
\* count), one whose 10 ids are not all in the catalog 400 (unknown card),
\* and neither has changed the deck's name or rows, also when the body holds
\* a name.
C7_PatchInvalidCardsRejected ==
    \A p \in Procs :
        (Done(p, "patch") /\ IsArray(req[p].cards)) =>
            LET cards == req[p].cards[1]
            IN  /\ cards.len # DeckSize =>
                      /\ resp[p].status = 400
                      /\ resp[p].body.error = "Un deck doit contenir exactement 10 cartes"
                      /\ ~wrote[p]
                /\ (cards.len = DeckSize /\ ~(\A i \in 1..DeckSize : cards.ids[i] \in CardIds)) =>
                      /\ resp[p].status = 400
                      /\ resp[p].body.error = "Certaines cartes n'existent pas"
                      /\ ~wrote[p]

C7_Witness ==
    \E p \in Procs :
        /\ Done(p, "patch") /\ Exists(req[p].deckId) /\ NameTruthy(req[p].name)
        /\ req[p].cards = Some(ArrayOf(ListUnknown))
        /\ resp[p].status = 400
        /\ decks[req[p].deckId].name # req[p].name[1]
        /\ NumRows(req[p].deckId) = DeckSize

\* C8: a POST with a name and a cards list of any length but 10, the empty
\* list included, is answered 400 (wrong count) and creates nothing.
C8_CreateWrongCountRejected ==
    \A p \in Procs :
        (Done(p, "create") /\ NameTruthy(req[p].name) /\ IsArray(req[p].cards)
            /\ req[p].cards[1].len # DeckSize) =>
            /\ resp[p].status = 400
            /\ resp[p].body.error = "Un deck doit contenir exactement 10 cartes"
            /\ ~wrote[p]

C8_Witness ==
    /\ \E p, q \in Procs :
        /\ Done(p, "create") /\ req[p].cards = Some(ArrayOf(ListEmpty))
        /\ resp[p].status = 400
        /\ pc[q] = "create_insert"
    /\ nextDeckId = 1 /\ decks = <<>> /\ deckCards = EmptyBag

\* C9: a POST with a name and 10 ids of which one is not in the catalog is
\* answered 400 (unknown card) and creates nothing.
C9_CreateUnknownCardRejected ==
    \A p \in Procs :
        (Done(p, "create") /\ NameTruthy(req[p].name) /\ IsArray(req[p].cards)
            /\ req[p].cards[1].len = DeckSize
            /\ \E i \in 1..DeckSize : req[p].cards[1].ids[i] \notin CardIds) =>
            /\ resp[p].status = 400
            /\ resp[p].body.error = "Certaines cartes n'existent pas"
            /\ ~wrote[p]

C9_Witness ==
    /\ \E p \in Procs :
        /\ Done(p, "create") /\ req[p].cards = Some(ArrayOf(ListUnknown))
        /\ resp[p].status = 400
    /\ nextDeckId = 1 /\ decks = <<>> /\ deckCards = EmptyBag

\* C10: right after a POST answered 201, getDeckById(id, owner) returns the
\* created deck: owned by the requester, named as asked, with exactly 10
\* linked cards whose ids are those of the request.
C10_CreateThenGet ==
    \A p \in Procs :
        (Done(p, "create") /\ resp[p].status = 201) =>
            LET ids == req[p].cards[1].ids
                got == getDeckById(resp[p].body.deck[1].id, req[p].userId)
            IN  /\ got # Undef
                /\ got[1].userId = req[p].userId
                /\ got[1].name = req[p].name[1]
                /\ BagCardinality(got[1].cards) = DeckSize
                /\ DOMAIN got[1].cards = {ids[i] : i \in 1..Len(ids)}

C10_Witness ==
    \E p \in Procs :
        /\ Done(p, "create") /\ resp[p].status = 201
        /\ Exists(resp[p].body.deck[1].id)

\* Whether cards holds 10 ids that are all in the catalog.
ValidCards(cards) ==
    /\ IsArray(cards)
    /\ cards[1].len = DeckSize
    /\ \A i \in 1..DeckSize : cards[1].ids[i] \in CardIds

\* C11: the step that completes an owner's PATCH with 10 existing ids,
\* answered 200, leaves the deck with exactly the rows of the new list (none
\* of the rows it had before) and every other deck's rows as they were.
C11_PatchReplacesCards ==
    [][\A p \in Procs, d \in DOMAIN decks :
         (pc[p] = "patch_update" /\ pc'[p] = "done" /\ resp'[p].status = 200
             /\ req[p].deckId = d /\ decks[d].userId = req[p].userId
             /\ ValidCards(req[p].cards))
         => /\ CardsOf(d)' = CardBag(req[p].cards[1].ids)
            /\ \A e \in DOMAIN decks \ {d} : CardsOf(e)' = CardsOf(e)]_vars

\* C12: a PATCH on an id that no deck has is answered 404 'Deck inexistant'
\* and writes nothing, whether its body holds a name, 10 existing card ids,
\* both or neither.
C12_PatchMissingDeckIs404 ==
    \A p \in Procs :
        (Done(p, "patch") /\ ~Exists(req[p].deckId)
            /\ (req[p].cards = Undef \/ ValidCards(req[p].cards)))
        => /\ resp[p].status = 404
           /\ resp[p].body.error = "Deck inexistant"
           /\ ~wrote[p]

C15_DeckCardPairUnique ==
    \A r \in BagToSet(deckCards) : CopiesIn(r, deckCards) = 1

\* A list with a duplicate id is refused by the index.
C15_Witness ==
    \E p \in Procs :
        /\ pc[p] = "done" /\ req[p].op \in {"create", "patch"}
        /\ req[p].cards = Some(ArrayOf(ListDup))
        /\ resp[p].status = 500

\* C16: two PATCH requests on the same deck, each with 10 existing ids,
\* never interleave their halves: no state has both past their deleteMany
\* and before their update, from where both go on to insert their rows.
C16_PatchesDoNotInterleave ==
    \A p, q \in Procs :
        (p # q /\ req[p].op = "patch" /\ req[q].op = "patch"
            /\ req[p].deckId = req[q].deckId /\ Exists(req[p].deckId)
            /\ ValidCards(req[p].cards) /\ ValidCards(req[q].cards))
        => ~(pc[p] = "patch_update" /\ pc[q] = "patch_update")

(***************************************************************************)
(* Properties of the auth routes and of authenticateToken.                 *)
(***************************************************************************)
FieldsPresent(r) == r.email # Undef /\ r.email[1] # "" /\ r.password # Undef /\ r.password[1] # ""

\* The users registered with this address.
RegisteredAs(email) == {id \in DOMAIN users : users[id].email = email}

\* Whether password is the one the stored hash was made from.
PasswordOf(id, password) ==
    \E salt \in Salts : users[id].password = bcrypt_hash(password, salt)

InvalidCredentials == [status |-> 401, body |-> ErrorBody("Email ou mot de passe incorrect")]

\* C17: a sign-in with an address nobody registered and a sign-in with a
\* registered address and a wrong password get the same response: 401 with
\* the body {error: 'Email ou mot de passe incorrect'}.
C17_SignInFailuresAlike ==
    \A p \in Procs :
        (Done(p, "signIn") /\ FieldsPresent(req[p])) =>
            LET known == RegisteredAs(req[p].email[1])
            IN  /\ known = {} => resp[p] = InvalidCredentials
                /\ (known # {} /\ \A id \in known : ~PasswordOf(id, req[p].password[1]))
                      => resp[p] = InvalidCredentials

C17_Witness ==
    \E p \in Procs :
        /\ Done(p, "signIn") /\ req[p].email = Some(EmailOf(1))
        /\ req[p].password = Some("pw2")
        /\ resp[p] = InvalidCredentials

\* C18: a sign-up with a field missing is answered 400 in the step it
\* arrives, before any store call; one with all fields goes on to the
\* lookup, where an address that belongs to a user is answered 409 with the
\* User table unchanged; and a user, once registered, stays registered, so
\* an address taken when the request arrives is still taken at the lookup.
C18_SignUpRejections ==
    [][\A p \in Procs :
         /\ (pc[p] = "idle" /\ req'[p].op = "signUp") =>
               IF req'[p].username = Undef \/ req'[p].username[1] = ""
                  \/ ~FieldsPresent(req'[p])
               THEN /\ pc'[p] = "done"
                    /\ resp'[p].status = 400
                    /\ resp'[p].body.error = "Tous les champs sont requis (username, email, password)"
                    /\ users' = users
               ELSE pc'[p] = "signUp_findUnique" /\ users' = users
         /\ (pc[p] = "signUp_findUnique" /\ pc'[p] # pc[p]
                /\ RegisteredAs(req[p].email[1]) # {}) =>
               /\ pc'[p] = "done"
               /\ resp'[p].status = 409
               /\ resp'[p].body.error = "Un utilisateur avec cet email existe déjà"
               /\ users' = users
         /\ \A id \in DOMAIN users : id \in DOMAIN users' /\ users'[id] = users[id]]_vars

\* The address was registered by an earlier sign-up.
C18_Witness ==
    \E p \in Procs :
        /\ Done(p, "signUp") /\ resp[p].status = 409
        /\ \E id \in RegisteredAs(req[p].email[1]) : id > NumUsers

\* C19: after a sign-up answered 201 the password stored on the new user is
\* a hash of the submitted password and not the password itself; the
\* response of a sign-up or sign-in holds no password: its user is
\* {id, username, email}.
C19_PasswordHashedAndHidden ==
    \A p \in Procs :
        /\ (Done(p, "signUp") /\ resp[p].status = 201) =>
              LET id == resp[p].body.user[1].id
              IN  /\ id \in DOMAIN users
                  /\ users[id].password # req[p].password[1]
                  /\ PasswordOf(id, req[p].password[1])
        /\ (pc[p] = "done" /\ req[p].op \in {"signUp", "signIn"}
               /\ resp[p].status \in {200, 201}) =>
              /\ DOMAIN resp[p].body.user[1] = {"id", "username", "email"}
              /\ "password" \notin DOMAIN resp[p].body

C19_Witness ==
    \E p \in Procs :
        /\ Done(p, "signUp") /\ resp[p].status = 201
        /\ resp[p].body.user[1].id = NumUsers + 1
        /\ req[p].password = Some("pw2")

\* The cases of a missing token: no header, an empty one, one without a
\* second segment, one whose second segment is empty.
MissingToken(h) == h = Undef \/ h[1] = <<"">> \/ Len(h[1]) < 2 \/ h[1][2] = Undef

\* C20: a request without a token is answered 401 'Token manquant' without
\* a call of jwt.verify; one whose token is expired or not signed with the
\* secret is answered 401 'Token invalide ou expiré'; for both no handler
\* runs and no table changes.
C20_TokenFailures ==
    \A p \in Procs :
        pc[p] # "idle" =>
            LET h == req[p].authorization
            IN  IF MissingToken(h)
                THEN /\ pc[p] = "done" /\ req[p].op = "authenticateToken"
                     /\ resp[p] = [status |-> 401, body |-> ErrorBody("Token manquant")]
                     /\ ~authenticateToken(h).verified
                     /\ ~wrote[p]
                ELSE IF h[1][2][1].signedWith # JWT_SECRET \/ h[1][2][1].expired
                THEN /\ pc[p] = "done" /\ req[p].op = "authenticateToken"
                     /\ resp[p] = [status |-> 401, body |-> ErrorBody("Token invalide ou expiré")]
                     /\ ~wrote[p]
                ELSE req[p].userId = h[1][2][1].payload.userId

\* An expired token, presented while a deck exists and another request is
\* between two store calls.
C20_Witness ==
    \E p, q \in Procs :
        /\ pc[p] = "done" /\ req[p].op = "authenticateToken"
        /\ ~MissingToken(req[p].authorization)
        /\ req[p].authorization[1][2][1].expired
        /\ resp[p].status = 401
        /\ decks # <<>> /\ pc[q] = "patch_update"

(***************************************************************************)
(* Properties of the list, of validation and of failures.                  *)
(***************************************************************************)
OwnedBy(u) == {d \in DOMAIN decks : decks[d].userId = u}

\* C21: GET /decks/mine returns all and only the decks of the requesting
\* user, each with the cards of all its DeckCard rows.
C21_MineIsOwnersDecks ==
    \A p \in Procs :
        Done(p, "mine") =>
            /\ resp[p].status = 200
            /\ IF OwnedBy(req[p].userId) = {}
               THEN resp[p].body.message = "Aucun deck trouvé pour cet utilisateur"
               ELSE /\ \A v \in resp[p].body.decks :
                          /\ v.id \in OwnedBy(req[p].userId)
                          /\ v.userId = req[p].userId
                          /\ v.name = decks[v.id].name
                          /\ v.cards = CardsOf(v.id)
                    /\ \A d \in OwnedBy(req[p].userId) :
                          \E v \in resp[p].body.decks : v.id = d

\* Two users own a deck each; the list of one holds one deck.
C21_Witness ==
    \E p \in Procs :
        /\ Done(p, "mine")
        /\ OwnedBy(req[p].userId) # {} /\ OwnedBy(req[p].userId) # DOMAIN decks
        /\ Cardinality(resp[p].body.decks) = 1

ValidationErrors ==
    {"Le nom et les cartes sont requis", "Les cartes doivent être un tableau",
     "Un deck doit contenir exactement 10 cartes"}

\* C22: a POST without a name or without cards, with cards that are no
\* array, or with a number of cards other than 10, and a PATCH with a number
\* of cards other than 10, are answered 400 in the step the request arrives,
\* before the first store call; and no response with one of these three
\* errors is sent from a later step.
C22_ValidationBeforeStore ==
    [][\A p \in Procs :
         /\ (pc[p] = "idle" /\ req'[p].op = "create"
                /\ (\/ req'[p].name = Undef \/ req'[p].name[1] = ""
                    \/ req'[p].cards = Undef
                    \/ req'[p].cards[1].len # DeckSize
                    \/ ~req'[p].cards[1].isArray))
               => (pc'[p] = "done" /\ resp'[p].status = 400
                      /\ resp'[p].body.error \in ValidationErrors)
         /\ (pc[p] = "idle" /\ req'[p].op = "patch" /\ req'[p].cards # Undef
                /\ req'[p].cards[1].len # DeckSize
                /\ (req'[p].cards[1].isArray \/ req'[p].cards[1].len > 0))
               => (pc'[p] = "done" /\ resp'[p].status = 400
                      /\ resp'[p].body.error = "Un deck doit contenir exactement 10 cartes")
         /\ (pc[p] # "done" /\ pc'[p] = "done"
                /\ resp'[p].body.error \in ValidationErrors)
               => pc[p] = "idle"]_vars

C22_Witness ==
    \E p \in Procs :
        /\ Done(p, "patch") /\ req[p].cards = Some(ArrayOf(ListShort))
        /\ resp[p].status = 400 /\ ~wrote[p]
        /\ Exists(req[p].deckId)

DomainErrors == {"ERREUR_NB_CARTES", "ERREUR_CARTES_INVALIDES"}

\* C23: an error thrown by a store call, other than the two domain errors,
\* is caught by the handler and answered 500 {error: 'Erreur serveur'}; the
\* domain errors keep their 400; every thrown error ends in a response, and
\* a 500 is only ever the answer to a thrown error.
C23_StoreFailuresAre500 ==
    \A p \in Procs :
        /\ thrown[p] # "" => pc[p] = "done"
        /\ pc[p] = "done" =>
              /\ thrown[p] \notin DomainErrors \cup {""} =>
                    resp[p] = [status |-> 500, body |-> ErrorBody("Erreur serveur")]
              /\ thrown[p] = "ERREUR_NB_CARTES" =>
                    resp[p] = [status |-> 400,
                               body |-> ErrorBody("Un deck doit contenir exactement 10 cartes")]
              /\ thrown[p] = "ERREUR_CARTES_INVALIDES" =>
                    resp[p] = [status |-> 400,
                               body |-> ErrorBody("Certaines cartes n'existent pas")]
              /\ resp[p].status = 500 => thrown[p] \notin DomainErrors \cup {""}

\* The database is lost between a PATCH's deleteMany and its update.
C23_Witness ==
    \E p \in Procs :
        /\ Done(p, "patch") /\ thrown[p] = "P1001" /\ wrote[p]
        /\ resp[p].status = 500
        /\ ValidCards(req[p].cards)

\* C24: a sign-up with all its fields that does not create the user, because
\* the address is taken, is answered 409, also when a concurrent sign-up
\* took the address after this request's lookup; one user holds the address.
C24_DuplicateSignUpIs409 ==
    \A p \in Procs :
        (Done(p, "signUp") /\ Truthy(req[p].username) /\ FieldsPresent(req[p])) =>
            /\ resp[p].status \in {201, 409}
            /\ Cardinality(RegisteredAs(req[p].email[1])) = 1

\* C25: a PATCH whose cards value POST /decks would refuse (no array, not
\* 10 elements, an id that is not in the catalog) is answered 400 and has
\* changed no table.
C25_PatchValidatesLikePost ==
    \A p \in Procs :
        (Done(p, "patch") /\ CardsTruthy(req[p].cards) /\ ~ValidCards(req[p].cards)) =>
            /\ resp[p].status = 400
            /\ ~wrote[p]

\* The step is one of slot p's request, whose operation is op.
StepOf(p, op) == req'[p].op = op /\ pc'[p] # pc[p] /\ pc[p] # "done"

\* C26: a step of a PATCH request leaves the User table, the set of decks,
\* every deck's owner, and every other deck with its rows as they were;
\* without cards it leaves every DeckCard row, and without a name (or with
\* the empty string) every Deck row.
C26_PatchChangesOnlySupplied ==
    [][\A p \in Procs :
          StepOf(p, "patch") =>
              /\ users' = users /\ nextUserId' = nextUserId
              /\ DOMAIN decks' = DOMAIN decks
              /\ \A x \in DOMAIN decks :
                    /\ decks'[x].userId = decks[x].userId
                    /\ x # req'[p].deckId =>
                          decks'[x] = decks[x] /\ CardsOf(x)' = CardsOf(x)
              /\ ~CardsTruthy(req'[p].cards) => deckCards' = deckCards
              /\ ~NameTruthy(req'[p].name) => decks' = decks]_vars

\* A PATCH with a name only has renamed a deck that kept its 10 rows, and
\* another deck is there.
C26_Witness ==
    \E p \in Procs :
        /\ Done(p, "patch") /\ resp[p].status = 200
        /\ NameTruthy(req[p].name) /\ ~CardsTruthy(req[p].cards)
        /\ decks[req[p].deckId].name = req[p].name[1]
        /\ NumRows(req[p].deckId) = DeckSize
        /\ \E x \in DOMAIN decks : x # req[p].deckId /\ NumRows(x) = DeckSize

\* C27: the step in which a DELETE request is answered 200 is the step that
\* removes the Deck row; a DELETE that finds the deck already removed by a
\* concurrent DELETE is answered 404.
C27_DeleteAnswers200OnlyIfItRemoved ==
    [][\A p \in Procs :
          (StepOf(p, "delete") /\ pc'[p] = "done") =>
              IF Exists(req[p].deckId) /\ req[p].deckId \notin DOMAIN decks'
              THEN resp'[p].status = 200
              ELSE resp'[p].status \in {403, 404}]_vars

\* C28: no step of a DELETE request whose user is not the owner of the deck
\* it names removes the Deck row or any DeckCard row.
C28_ForeignDeleteRemovesNothing ==
    [][\A p \in Procs :
          (/\ StepOf(p, "delete")
           /\ Exists(req'[p].deckId)
           /\ decks[req'[p].deckId].userId # req'[p].userId) =>
              decks' = decks /\ deckCards' = deckCards]_vars

\* A DELETE by another user than the owner has been answered and the deck is
\* there with its 10 rows.
C28_Witness ==
    \E p \in Procs :
        /\ Done(p, "delete") /\ resp[p].status = 404
        /\ Exists(req[p].deckId)
        /\ decks[req[p].deckId].userId # req[p].userId
        /\ NumRows(req[p].deckId) = DeckSize

DeckOps == {"create", "mine", "get", "patch", "delete"}

\* The users a token was issued for by sign-up or sign-in.
IssuedFor(token) == {u \in DOMAIN users : token = Some(IssueToken(UserRow(u)))}

\* C29: a deck handler runs only for a request whose token was issued for a
\* user and verifies, with req.userId that user's id; and a deck that a step
\* of POST /decks creates is owned by the user the request's token was
\* issued for.
C29_IdentityFlows ==
    /\ [](\A p \in Procs :
            req[p].op \in DeckOps =>
                /\ TokenOf(req[p].authorization) # Undef
                /\ jwt_verify(TokenOf(req[p].authorization)[1], JWT_SECRET)
                /\ IssuedFor(TokenOf(req[p].authorization)) = {req[p].userId})
    /\ [][\A p \in Procs :
            StepOf(p, "create") =>
                \A d \in DOMAIN decks' \ DOMAIN decks :
                    IssuedFor(TokenOf(req[p].authorization)) = {decks'[d].userId}]_vars

\* POST /decks with the token of the second user has created a deck of the
\* second user.
C29_Witness ==
    \E p \in Procs :
        /\ Done(p, "create") /\ resp[p].status = 201
        /\ IssuedFor(TokenOf(req[p].authorization)) = {2}
        /\ \E d \in DOMAIN decks : decks[d].userId = 2 /\ resp[p].body.deck[1].id = d

\* C30: every stored deck has a non-empty name; POST /decks without a name
\* or with the empty string is answered 400 and creates nothing; a step of
\* a PATCH whose name is the empty string leaves every Deck row as it was.
C30_DeckNamesNonEmpty ==
    /\ [](\A d \in DOMAIN decks : decks[d].name # "")
    /\ [](\A p \in Procs :
            (Done(p, "create") /\ ~(req[p].name # Undef /\ req[p].name[1] # "")) =>
                resp[p].status = 400 /\ ~wrote[p])
    /\ [][\A p \in Procs :
            (StepOf(p, "patch") /\ req'[p].name = Some("")) => decks' = decks]_vars

\* A PATCH with the empty string as name has been answered 200 and the deck
\* has the name it was created with.
C30_Witness ==
    \E p \in Procs :
        /\ Done(p, "patch") /\ resp[p].status = 200
        /\ req[p].name = Some("")
        /\ Exists(req[p].deckId) /\ decks[req[p].deckId].name = "A"

====
